---- MODULE Spec2Model ----
(***************************************************************************)
(* Model of the Groq FastAPI chatbot backend (main.py, utils.py).          *)
(*                                                                         *)
(* Text is modelled by TLA+ strings, read character by character with      *)
(* SubSeq; JSON / Python values are tagged records so that None, strings   *)
(* and numbers stay distinguishable.  Temperatures are kept in tenths      *)
(* (0.7 is 7, 2.0 is 20): the code only compares them with 0.0 and 2.0.    *)
(***************************************************************************)
EXTENDS Integers, Sequences, FiniteSets, TLC

VARIABLES phase, api_key, groq_client, last

vars == <<phase, api_key, groq_client, last>>

(***************************************************************************)
(* Values                                                                  *)
(***************************************************************************)
None == [tag |-> "None"]
Missing == [tag |-> "missing"]
StrV(s) == [tag |-> "str", val |-> s]
IntV(n) == [tag |-> "int", val |-> n]
FloatV(t) == [tag |-> "float", val |-> t]

\* the live Groq(api_key=...) object held by the module-level global
Groq(key) == [tag |-> "Groq", api_key |-> key]

\* Python truthiness of the values the handlers test
Truthy(v) == v # None /\ v # StrV("")

(***************************************************************************)
(* Text helpers                                                            *)
(***************************************************************************)
UPPER == "ABCDEFGHIJKLMNOPQRSTUVWXYZ"
LOWER == "abcdefghijklmnopqrstuvwxyz"

CharAt(s, i) == SubSeq(s, i, i)

\* the lower-case letter of each upper-case letter
LowerOf ==
  [u \in {CharAt(UPPER, i) : i \in 1..Len(UPPER)} |->
     CharAt(LOWER, CHOOSE i \in 1..Len(UPPER) : CharAt(UPPER, i) = u)]

LowerChar(c) == IF c \in DOMAIN LowerOf THEN LowerOf[c] ELSE c

\* str.lower() of the characters a..b of s, by halves
RECURSIVE LowerRange(_, _, _)
LowerRange(s, a, b) ==
  IF a > b THEN ""
  ELSE IF a = b THEN LowerChar(CharAt(s, a))
  ELSE LowerRange(s, a, (a + b) \div 2) \o LowerRange(s, (a + b) \div 2 + 1, b)

\* str.lower()
lower(s) == LowerRange(s, 1, Len(s))

\* the Python test  p in s
In(p, s) ==
  \E i \in 1..(Len(s) - Len(p) + 1) : SubSeq(s, i, i + Len(p) - 1) = p

\* "x" * 4096, built by doubling
X1 == "x"
X16 == X1 \o X1 \o X1 \o X1 \o X1 \o X1 \o X1 \o X1 \o X1 \o X1 \o X1 \o X1 \o X1 \o X1 \o X1 \o X1
X256 == X16 \o X16 \o X16 \o X16 \o X16 \o X16 \o X16 \o X16 \o X16 \o X16 \o X16 \o X16 \o X16 \o X16 \o X16 \o X16
X4096 == X256 \o X256 \o X256 \o X256 \o X256 \o X256 \o X256 \o X256 \o X256 \o X256 \o X256 \o X256 \o X256 \o X256 \o X256 \o X256
Xs(n) == SubSeq(X4096, 1, n)

(***************************************************************************)
(* ChatRequest: the request model and its validation (main.py 81-104)      *)
(***************************************************************************)
message_min_length == 1
message_max_length == 4000
model_default == "llama-3.1-8b-instant"
max_tokens_default == 1024
max_tokens_ge == 1
max_tokens_le == 4096
temperature_default == 7
temperature_ge == 0
temperature_le == 20

\* message: str, required, min_length=1, max_length=4000
message_ok(v) ==
  /\ v.tag = "str"
  /\ Len(v.val) >= message_min_length
  /\ Len(v.val) <= message_max_length

\* model: Optional[str], no constraint
model_ok(v) == v.tag \in {"missing", "None", "str"}

\* max_tokens with the upper bound left out
max_tokens_ok_NoUpper(v) ==
  \/ v.tag \in {"missing", "None"}
  \/ v.tag = "int" /\ v.val >= max_tokens_ge

\* max_tokens: Optional[int], ge=1, le=4096; None skips the constraints
max_tokens_ok(v) ==
  \/ v.tag \in {"missing", "None"}
  \/ v.tag = "int" /\ v.val >= max_tokens_ge /\ v.val <= max_tokens_le

\* temperature: Optional[float], ge=0.0, le=2.0; None skips the constraints
temperature_ok(v) ==
  \/ v.tag \in {"missing", "None"}
  \/ v.tag = "float" /\ v.val >= temperature_ge /\ v.val <= temperature_le

\* the fields of a body that fail validation
ValidationErrors(body) ==
  {f \in {"message"} : ~message_ok(body.message)}
    \cup {f \in {"model"} : ~model_ok(body.model)}
    \cup {f \in {"max_tokens"} : ~max_tokens_ok(body.max_tokens)}
    \cup {f \in {"temperature"} : ~temperature_ok(body.temperature)}

Default(v, d) == IF v = Missing THEN d ELSE v

\* the ChatRequest object built from a body that passed validation
ChatRequest(body) ==
  [message |-> body.message.val,
   model |-> Default(body.model, StrV(model_default)),
   max_tokens |-> Default(body.max_tokens, IntV(max_tokens_default)),
   temperature |-> Default(body.temperature, FloatV(temperature_default))]

(***************************************************************************)
(* utils.py                                                                *)
(***************************************************************************)
sanitize_limit == 4000

\* the characters matched by \s and removed by str.strip()
IsSpace(c) == c \in {" ", "\t", "\n", "\r", "\f"}

Min(S) == CHOOSE x \in S : \A y \in S : x <= y

\* a strip that leaves the text as it is
strip_Nothing(s) == s

\* str.strip(): the text between the first and the last character that is
\* not whitespace
strip(s) ==
  IF \A i \in 1..Len(s) : IsSpace(CharAt(s, i)) THEN ""
  ELSE SubSeq(s,
              CHOOSE i \in 1..Len(s) :
                /\ ~IsSpace(CharAt(s, i))
                /\ \A j \in 1..(i - 1) : IsSpace(CharAt(s, j)),
              CHOOSE i \in 1..Len(s) :
                /\ ~IsSpace(CharAt(s, i))
                /\ \A j \in (i + 1)..Len(s) : IsSpace(CharAt(s, j)))

\* what re.sub(r'\s+', ' ', s) leaves of the character at i: a run of
\* whitespace becomes the single space written for its first character
CollapseChar(s, i) ==
  IF ~IsSpace(CharAt(s, i)) THEN CharAt(s, i)
  ELSE IF i > 1 /\ IsSpace(CharAt(s, i - 1)) THEN ""
  ELSE " "

\* re.sub(r'\s+', ' ', s) on the characters a..b of s, by halves
RECURSIVE CollapseRange(_, _, _)
CollapseRange(s, a, b) ==
  IF a > b THEN ""
  ELSE IF a = b THEN CollapseChar(s, a)
  ELSE CollapseRange(s, a, (a + b) \div 2)
         \o CollapseRange(s, (a + b) \div 2 + 1, b)

collapse_whitespace(s) == CollapseRange(s, 1, Len(s))

script_open == "<script"
script_close == "</script>"

\* case-insensitive match of the literal p at index i of s
MatchAtI(s, i, p) ==
  /\ i + Len(p) - 1 <= Len(s)
  /\ lower(SubSeq(s, i, i + Len(p) - 1)) = p

\* start indices, after an opening at i, of the closing tags that can end it
ScriptCloses(s, i) ==
  {j \in (i + Len(script_open))..Len(s) : MatchAtI(s, j, script_close)}

\* indices at or after i where <script.*?</script> matches
ScriptStarts(s, i) ==
  {j \in i..Len(s) : MatchAtI(s, j, script_open) /\ ScriptCloses(s, j) # {}}

\* re.sub(r'<script.*?</script>', '', s, flags=IGNORECASE | DOTALL) from
\* index i: leftmost opening, shortest body, matches do not overlap, one pass
RECURSIVE RemoveScriptsFrom(_, _)
RemoveScriptsFrom(s, i) ==
  IF ScriptStarts(s, i) = {} THEN SubSeq(s, i, Len(s))
  ELSE LET j == Min(ScriptStarts(s, i))
       IN SubSeq(s, i, j - 1)
            \o RemoveScriptsFrom(s, Min(ScriptCloses(s, j)) + Len(script_close))

remove_scripts(s) == RemoveScriptsFrom(s, 1)

\* positions of the '>' that can end a tag opened at i: [^>]+ needs at
\* least one character that is not '>' before it
TagEnds(s, i) == {j \in (i + 2)..Len(s) : CharAt(s, j) = ">"}

\* indices at or after i where <[^>]+> matches
TagStarts(s, i) ==
  {j \in i..(Len(s) - 1) :
     /\ CharAt(s, j) = "<"
     /\ CharAt(s, j + 1) # ">"
     /\ TagEnds(s, j) # {}}

\* re.sub(r'<[^>]+>', '', s) from index i
RECURSIVE RemoveTagsFrom(_, _)
RemoveTagsFrom(s, i) ==
  IF TagStarts(s, i) = {} THEN SubSeq(s, i, Len(s))
  ELSE LET j == Min(TagStarts(s, i))
       IN SubSeq(s, i, j - 1) \o RemoveTagsFrom(s, Min(TagEnds(s, j)) + 1)

\* the substitution made for the first match only
remove_tags_First(s) ==
  IF TagStarts(s, 1) = {} THEN s
  ELSE LET j == Min(TagStarts(s, 1))
       IN SubSeq(s, 1, j - 1) \o SubSeq(s, Min(TagEnds(s, j)) + 1, Len(s))

remove_tags(s) == RemoveTagsFrom(s, 1)

\* the length check that cuts the text and appends nothing
truncate_NoMarker(s, n) == IF Len(s) > n THEN SubSeq(s, 1, n) ELSE s

\* the length check that ends sanitize_message, for a limit of n characters
truncate(s, n) == IF Len(s) > n THEN SubSeq(s, 1, n) \o "..." ELSE s

\* the passes with the length check moved to the front
sanitize_TruncateFirst(message, n) ==
  IF ~Truthy(message) THEN ""
  ELSE remove_tags(remove_scripts(
         collapse_whitespace(strip(truncate(message.val, n)))))

\* sanitize_message with the length limit as a parameter
sanitize(message, n) ==
  IF ~Truthy(message) THEN ""
  ELSE truncate(remove_tags(remove_scripts(
         collapse_whitespace(strip(message.val)))), n)

sanitize_message(message) == sanitize(message, sanitize_limit)

\* the ids of config.get_groq_models(), which names the 8B model twice
valid_models_Config ==
  <<"llama-3.1-8b-instant", "llama-3.1-8b-instant", "mixtral-8x7b-32768", "gemma-7b-it">>

\* the list validate_model_name checks against
valid_models ==
  <<"llama-3.1-8b-instant", "llama3-70b-8192", "mixtral-8x7b-32768", "gemma-7b-it">>

\* validate_model_name(model): model in valid_models
validate_model_name(model) ==
  \E i \in 1..Len(valid_models) : StrV(valid_models[i]) = model

\* format_chat_response(response, model, tokens), without the wall-clock
\* timestamp
format_chat_response(response, model, tokens) ==
  [reply |-> StrV(strip(response.val)),
   model_used |-> model,
   tokens_used |-> tokens,
   status |-> "success"]

base_prompt ==
  "You are a helpful AI assistant. Provide clear, concise, and helpful responses. "
  \o "Be friendly and professional in your interactions. If you're unsure about something, "
  \o "acknowledge the uncertainty rather than guessing."

\* create_system_prompt(custom_instructions=None)
create_system_prompt(custom_instructions) ==
  IF Truthy(custom_instructions)
  THEN base_prompt \o "\n\nAdditional instructions: " \o custom_instructions.val
  ELSE base_prompt


(***************************************************************************)
(* main.py: the provider call and the /chat handler                        *)
(***************************************************************************)
HTTP_200_OK == 200
HTTP_400_BAD_REQUEST == 400
HTTP_401_UNAUTHORIZED == 401
HTTP_422_UNPROCESSABLE_ENTITY == 422
HTTP_429_TOO_MANY_REQUESTS == 429
HTTP_500_INTERNAL_SERVER_ERROR == 500
HTTP_503_SERVICE_UNAVAILABLE == 503

\* outcome of a Python call: a returned value or a raised exception whose
\* str() is msg
Return(v) == [kind |-> "return", val |-> v]
Raise(m) == [kind |-> "raise", msg |-> m]

\* an HTTP response; HTTPException(status_code, detail) is rendered by the
\* framework as the JSON body {"detail": detail}
Response(code, content) == [status_code |-> code, body |-> content]
HTTPException(code, text) == Response(code, [detail |-> text])

\* str(v) inside an f-string
PyStr(v) == IF v = None THEN "None" ELSE v.val

system_content ==
  "You are a helpful AI assistant. Provide clear, concise, and helpful responses."

\* the call made with the default max_tokens instead of the request's
CreateArgs_DefaultTokens(request) ==
  [messages |-> <<[role |-> "system", content |-> system_content],
                  [role |-> "user", content |-> request.message]>>,
   model |-> request.model,
   max_tokens |-> IntV(max_tokens_default),
   temperature |-> request.temperature,
   stream |-> FALSE]

\* keyword arguments of groq_client.chat.completions.create(...)
CreateArgs(request) ==
  [messages |-> <<[role |-> "system", content |-> system_content],
                  [role |-> "user", content |-> request.message]>>,
   model |-> request.model,
   max_tokens |-> request.max_tokens,
   temperature |-> request.temperature,
   stream |-> FALSE]

\* text of the pydantic error raised for the fields of bad
ValidationErrorText(bad) ==
  "validation error for ChatResponse"
    \o (IF "reply" \in bad THEN "\nreply\n  Input should be a valid string" ELSE "")
    \o (IF "model_used" \in bad
        THEN "\nmodel_used\n  Input should be a valid string" ELSE "")

\* a response object built without validating its fields
ChatResponse_Unvalidated(reply, model_used, tokens_used) ==
  Return([reply |-> reply, model_used |-> model_used, tokens_used |-> tokens_used])

\* ChatResponse(reply=..., model_used=..., tokens_used=...): reply and
\* model_used are required strings, tokens_used is Optional[int]
ChatResponse(reply, model_used, tokens_used) ==
  LET bad == {f \in {"reply"} : reply.tag # "str"}
               \cup {f \in {"model_used"} : model_used.tag # "str"}
  IN IF bad # {}
     THEN Raise(ValidationErrorText(bad))
     ELSE Return([reply |-> reply,
                  model_used |-> model_used,
                  tokens_used |-> tokens_used])

\* the code after the provider call returned: extract the first choice and
\* the usage, build the response
ExtractResponse(chat_completion, request) ==
  IF Len(chat_completion.choices) = 0
  THEN Raise("list index out of range")
  ELSE LET ai_response == chat_completion.choices[1]
           tokens_used == IF chat_completion.usage # None
                          THEN chat_completion.usage.total_tokens
                          ELSE None
       IN ChatResponse(ai_response, request.model, tokens_used)

\* the classification with the rate_limit test made on str(e) as it is
ClassifyError_CaseSensitive(e, request) ==
  IF In("invalid_api_key", lower(e))
  THEN HTTPException(HTTP_401_UNAUTHORIZED, "Invalid Groq API key")
  ELSE IF In("rate_limit", e)
  THEN HTTPException(HTTP_429_TOO_MANY_REQUESTS,
                     "Rate limit exceeded. Please try again later.")
  ELSE IF In("model", lower(e)) /\ In("not found", lower(e))
  THEN HTTPException(HTTP_400_BAD_REQUEST,
                     "Model '" \o PyStr(request.model) \o "' is not available")
  ELSE HTTPException(HTTP_500_INTERNAL_SERVER_ERROR,
                     "An error occurred while processing your request")

\* a classification whose last case reports the error text
ClassifyError_Leaky(e, request) ==
  IF In("invalid_api_key", lower(e))
  THEN HTTPException(HTTP_401_UNAUTHORIZED, "Invalid Groq API key")
  ELSE IF In("rate_limit", lower(e))
  THEN HTTPException(HTTP_429_TOO_MANY_REQUESTS,
                     "Rate limit exceeded. Please try again later.")
  ELSE IF In("model", lower(e)) /\ In("not found", lower(e))
  THEN HTTPException(HTTP_400_BAD_REQUEST,
                     "Model '" \o PyStr(request.model) \o "' is not available")
  ELSE HTTPException(HTTP_500_INTERNAL_SERVER_ERROR,
                     "An error occurred: " \o e)

\* a classification that tests rate_limit before invalid_api_key
ClassifyError_RateFirst(e, request) ==
  IF In("rate_limit", lower(e))
  THEN HTTPException(HTTP_429_TOO_MANY_REQUESTS,
                     "Rate limit exceeded. Please try again later.")
  ELSE IF In("invalid_api_key", lower(e))
  THEN HTTPException(HTTP_401_UNAUTHORIZED, "Invalid Groq API key")
  ELSE IF In("model", lower(e)) /\ In("not found", lower(e))
  THEN HTTPException(HTTP_400_BAD_REQUEST,
                     "Model '" \o PyStr(request.model) \o "' is not available")
  ELSE HTTPException(HTTP_500_INTERNAL_SERVER_ERROR,
                     "An error occurred while processing your request")

\* the except branch: classify str(e).lower() and raise the HTTPException
ClassifyError(e, request) ==
  IF In("invalid_api_key", lower(e))
  THEN HTTPException(HTTP_401_UNAUTHORIZED, "Invalid Groq API key")
  ELSE IF In("rate_limit", lower(e))
  THEN HTTPException(HTTP_429_TOO_MANY_REQUESTS,
                     "Rate limit exceeded. Please try again later.")
  ELSE IF In("model", lower(e)) /\ In("not found", lower(e))
  THEN HTTPException(HTTP_400_BAD_REQUEST,
                     "Model '" \o PyStr(request.model) \o "' is not available")
  ELSE HTTPException(HTTP_500_INTERNAL_SERVER_ERROR,
                     "An error occurred while processing your request")

\* the try block with a second attempt after a failed provider call
TryBlock_Retry(request, outcome) ==
  LET result == IF outcome.kind = "raise" THEN outcome
                ELSE ExtractResponse(outcome.val, request)
  IN [calls |-> IF outcome.kind = "raise"
                THEN <<CreateArgs(request), CreateArgs(request)>>
                ELSE <<CreateArgs(request)>>,
      responses |-> <<IF result.kind = "raise"
                      THEN ClassifyError(result.msg, request)
                      ELSE Response(HTTP_200_OK, result.val)>>]

\* the try block of chat(): outcome is what the provider does with the call
TryBlock(request, outcome) ==
  LET result == IF outcome.kind = "raise" THEN outcome
                ELSE ExtractResponse(outcome.val, request)
  IN [calls |-> <<CreateArgs(request)>>,
      responses |-> <<IF result.kind = "raise"
                      THEN ClassifyError(result.msg, request)
                      ELSE Response(HTTP_200_OK, result.val)>>]

\* chat(request): the handler body, for the client it finds in the global
chat(client, request, outcome) ==
  IF ~Truthy(client)
  THEN [calls |-> <<>>,
        responses |-> <<HTTPException(HTTP_503_SERVICE_UNAVAILABLE,
                                      "Groq service is not available")>>]
  ELSE TryBlock(request, outcome)

\* POST /chat: the framework validates the body against ChatRequest and
\* answers 422 itself; only a valid body reaches the handler
PostChat(client, body, outcome) ==
  IF ValidationErrors(body) # {}
  THEN [calls |-> <<>>,
        responses |-> <<HTTPException(HTTP_422_UNPROCESSABLE_ENTITY,
                                      ValidationErrors(body))>>]
  ELSE chat(client, ChatRequest(body), outcome)

\* ids of the catalog served by GET /models
available_models ==
  <<"llama-3.1-8b-instant", "llama3-70b-8192", "mixtral-8x7b-32768", "gemma-7b-it">>

\* the catalog served without looking at the handle
get_available_models_Unchecked(client) ==
  Response(HTTP_200_OK, [models |-> available_models])

\* get_available_models()
get_available_models(client) ==
  IF ~Truthy(client)
  THEN HTTPException(HTTP_503_SERVICE_UNAVAILABLE, "Groq service is not available")
  ELSE Response(HTTP_200_OK, [models |-> available_models])

\* the health report that never looks at the handle
health_check_AlwaysConnected(client) ==
  Response(HTTP_200_OK, [status |-> "healthy", groq_client |-> "connected"])

\* health_check()
health_check(client) ==
  Response(HTTP_200_OK,
           [status |-> "healthy",
            groq_client |-> IF Truthy(client) THEN "connected" ELSE "disconnected"])

\* root()
root ==
  Response(HTTP_200_OK,
           [message |-> "Groq FastAPI Chatbot is running!",
            status |-> "healthy", docs |-> "/docs", version |-> "1.0.0"])

(***************************************************************************)
(* Inputs                                                                  *)
(***************************************************************************)
Messages ==
  {Missing, None, StrV(""), StrV("Hello AI!"), StrV("  <b>hi</b>   there "),
   StrV(Xs(message_max_length)), StrV(Xs(message_max_length + 1))}

Models == {Missing, None, StrV(model_default), StrV("mixtral-8x7b-32768")}

MaxTokens ==
  {Missing, None, IntV(max_tokens_ge - 1), IntV(max_tokens_ge), IntV(512),
   IntV(max_tokens_le), IntV(max_tokens_le + 1)}

Temperatures ==
  {Missing, None, FloatV(temperature_ge - 1), FloatV(temperature_ge), FloatV(9),
   FloatV(temperature_le), FloatV(temperature_le + 1)}

Bodies ==
  [message : Messages, model : Models, max_tokens : MaxTokens,
   temperature : Temperatures]

\* error texts a failing provider call can carry
ErrorTexts ==
  {"API Error", "", "invalid_api_key", "Error code: 401 - Invalid_API_Key",
   "rate_limit_exceeded", "Rate_Limit reached", "model x not found",
   "Not Found: the Model", "model overloaded", "resource not found",
   "invalid_api_key after rate_limit", "rate_limit for model not found"}

Usages == {None, [tag |-> "usage", total_tokens |-> IntV(25)],
           [tag |-> "usage", total_tokens |-> None]}

ChoiceLists ==
  {<<>>, <<None>>, <<StrV("Hello! How can I help you today?")>>,
   <<StrV("  Hi  "), StrV("second")>>}

Completions == [choices : ChoiceLists, usage : Usages]

Outcomes == {Raise(e) : e \in ErrorTexts} \cup {Return(c) : c \in Completions}

ApiKeys == {None, StrV(""), StrV("gsk_test")}

(***************************************************************************)
(* State machine                                                           *)
(***************************************************************************)
Exchange(ep, b, client, o, r) ==
  [endpoint |-> ep, body |-> b, client |-> client, outcome |-> o,
   calls |-> r.calls, responses |-> r.responses]

\* what the provider can do with a request: it acts only on a request that
\* reaches groq_client.chat.completions.create
ProviderOutcomes(client, body) ==
  IF ValidationErrors(body) = {} /\ Truthy(client) THEN Outcomes ELSE {None}

Init ==
  /\ phase = "init"
  /\ api_key \in ApiKeys
  /\ groq_client = None
  /\ last = None

\* the startup that builds the client without testing the credential
Startup_NoKeyCheck(ctor_ok) ==
  /\ phase = "init"
  /\ IF ctor_ok
     THEN groq_client' = Groq(PyStr(api_key)) /\ phase' = "serving"
     ELSE groq_client' = groq_client /\ phase' = "failed"
  /\ UNCHANGED <<api_key, last>>

\* lifespan(), up to the yield: the Groq constructor succeeds or raises
Startup(ctor_ok) ==
  /\ phase = "init"
  /\ IF Truthy(api_key) /\ ctor_ok
     THEN groq_client' = Groq(api_key.val) /\ phase' = "serving"
     ELSE groq_client' = groq_client /\ phase' = "failed"
  /\ UNCHANGED <<api_key, last>>

\* lifespan(), after the yield
Shutdown ==
  /\ phase = "serving"
  /\ groq_client' = None
  /\ phase' = "stopped"
  /\ UNCHANGED <<api_key, last>>

\* the handlers run to completion one at a time (async def without await):
\* a request is taken up only when no exchange is being delivered
Chat(body, outcome) ==
  /\ last = None
  /\ last' = Exchange("POST /chat", body, groq_client, outcome,
                      PostChat(groq_client, body, outcome))
  /\ UNCHANGED <<phase, api_key, groq_client>>

GetModels ==
  /\ last = None
  /\ last' = Exchange("GET /models", None, groq_client, None,
                      [calls |-> <<>>,
                       responses |-> <<get_available_models(groq_client)>>])
  /\ UNCHANGED <<phase, api_key, groq_client>>

GetHealth ==
  /\ last = None
  /\ last' = Exchange("GET /health", None, groq_client, None,
                      [calls |-> <<>>, responses |-> <<health_check(groq_client)>>])
  /\ UNCHANGED <<phase, api_key, groq_client>>

GetRoot ==
  /\ last = None
  /\ last' = Exchange("GET /", None, groq_client, None,
                      [calls |-> <<>>, responses |-> <<root>>])
  /\ UNCHANGED <<phase, api_key, groq_client>>

\* the response of the exchange is sent and the exchange is dropped: nothing
\* of a request outlives it
Deliver ==
  /\ last # None
  /\ last' = None
  /\ UNCHANGED <<phase, api_key, groq_client>>

Next ==
  \/ \E ok \in BOOLEAN : Startup(ok)
  \/ Shutdown
  \/ \E b \in Bodies : \E o \in ProviderOutcomes(groq_client, b) : Chat(b, o)
  \/ GetModels
  \/ GetHealth
  \/ GetRoot
  \/ Deliver

Spec == Init /\ [][Next]_vars

TypeOK ==
  /\ phase \in {"init", "serving", "failed", "stopped"}
  /\ api_key \in ApiKeys
  /\ groq_client \in {None} \cup {Groq(k.val) : k \in ApiKeys \ {None}}

(***************************************************************************)
(* chat() step by step: the handle test (line 178) and the try block that  *)
(* reads the global again for the provider call (line 189)                 *)
(***************************************************************************)
\* a handler that would give the event loop a turn between its two steps
chat_suspends_Yes == TRUE

\* chat() is an async def with no await, and the provider call is a blocking
\* call of the synchronous client: between the handle test and the call the
\* event loop runs nothing else
chat_suspends == FALSE

\* a chat() that passed the handle test and has not reached the call
MidHandler == last # None /\ last.pc = "checked"

\* the event loop can run the lifespan code
LoopFree == chat_suspends \/ ~MidHandler

\* the try block for the handle found in the global when it is entered:
\* None has no attribute chat, the AttributeError is caught like any other
UseHandle(client, request, outcome) ==
  IF client = None
  THEN [calls |-> <<>>,
        responses |->
          <<ClassifyError("'NoneType' object has no attribute 'chat'", request)>>]
  ELSE TryBlock(request, outcome)

StepBodies ==
  {b \in Bodies : b.max_tokens = Missing
                    /\ b.temperature \in {Missing, FloatV(temperature_le + 1)}}

StepExchange(pc, b, client, used, o, r) ==
  [endpoint |-> "POST /chat", pc |-> pc, body |-> b, client |-> client,
   used |-> used, outcome |-> o, calls |-> r.calls, responses |-> r.responses]

\* validation and the handle test: 422, 503, or on to the try block
ChatCheck(body) ==
  /\ last = None
  /\ last' = IF ValidationErrors(body) # {} \/ ~Truthy(groq_client)
             THEN StepExchange("done", body, groq_client, None, None,
                               PostChat(groq_client, body, None))
             ELSE StepExchange("checked", body, groq_client, None, None,
                               [calls |-> <<>>, responses |-> <<>>])
  /\ UNCHANGED <<phase, api_key, groq_client>>

\* the try block, on the handle the global holds now
ChatCall(outcome) ==
  /\ MidHandler
  /\ last' = StepExchange("done", last.body, last.client, groq_client, outcome,
                          UseHandle(groq_client, ChatRequest(last.body), outcome))
  /\ UNCHANGED <<phase, api_key, groq_client>>

DeliverStep ==
  /\ last # None /\ last.pc = "done"
  /\ last' = None
  /\ UNCHANGED <<phase, api_key, groq_client>>

StartupStep(ctor_ok) == LoopFree /\ Startup(ctor_ok)

ShutdownStep == LoopFree /\ Shutdown

NextSteps ==
  \/ \E ok \in BOOLEAN : StartupStep(ok)
  \/ ShutdownStep
  \/ \E b \in StepBodies : ChatCheck(b)
  \/ \E o \in (IF groq_client = None THEN {None} ELSE Outcomes) : ChatCall(o)
  \/ DeliverStep

SpecSteps == Init /\ [][NextSteps]_vars

(***************************************************************************)
(* The helpers of utils.py applied on their own: each call is recorded in  *)
(* last with its input and output                                          *)
(***************************************************************************)
\* length limit of sanitize_message, scaled down from 4000
SanLimit == 2

\* number of fragments an input text is built from
MaxFrags == 3

\* pieces of message text: whitespace, a payload character, brackets, a tag
\* between spaces, script tags in mixed case, with and without whitespace
\* before the bracket, and an opening tag split by a script block
Fragments ==
  {" \n", "X", "<", ">", " <b> ", "<ScRiPt>", "</script>", "</script >",
   "<scr<script></script>ipt>"}

\* the texts made of at most n fragments
RECURSIVE Texts(_)
Texts(n) ==
  IF n = 0 THEN {""}
  ELSE Texts(n - 1) \cup {t \o f : t \in Texts(n - 1), f \in Fragments}

SanInputs == {None} \cup {StrV(t) : t \in Texts(MaxFrags)}

ModelNames ==
  {None, StrV(""), StrV("gpt-4"), StrV("invalid-model"), StrV("llama3-8b-8193")}
    \cup {StrV(valid_models[i]) : i \in 1..Len(valid_models)}
    \cup {StrV(available_models[i]) : i \in 1..Len(available_models)}

InitUtil ==
  /\ phase = "init"
  /\ api_key = None
  /\ groq_client = None
  /\ last = None

\* sanitize_message(x), with the length limit n
Sanitize(x, n) ==
  /\ last = None
  /\ last' = [endpoint |-> "sanitize_message", limit |-> n, pass |-> 1,
              first |-> x, input |-> x, output |-> sanitize(x, n)]
  /\ UNCHANGED <<phase, api_key, groq_client>>

\* sanitize_message applied to its own output
SanitizeAgain ==
  /\ last # None /\ last.endpoint = "sanitize_message" /\ last.pass = 1
  /\ last' = [endpoint |-> "sanitize_message", limit |-> last.limit, pass |-> 2,
              first |-> last.first, input |-> StrV(last.output),
              output |-> sanitize(StrV(last.output), last.limit)]
  /\ UNCHANGED <<phase, api_key, groq_client>>

\* validate_model_name(m)
ValidateModel(m) ==
  /\ last = None
  /\ last' = [endpoint |-> "validate_model_name", input |-> m,
              output |-> validate_model_name(m)]
  /\ UNCHANGED <<phase, api_key, groq_client>>

\* the result is returned and nothing is kept
Forget ==
  /\ last # None
  /\ last' = None
  /\ UNCHANGED <<phase, api_key, groq_client>>

\* the function is run with its own limit, which the short texts never
\* reach, and with the limit scaled down, which they do
Limits == {sanitize_limit, SanLimit}

NextUtil ==
  \/ \E x \in SanInputs : \E n \in Limits : Sanitize(x, n)
  \/ SanitizeAgain
  \/ \E m \in ModelNames : ValidateModel(m)
  \/ Forget

UtilSpec == InitUtil /\ [][NextUtil]_vars

(***************************************************************************)
(* Properties                                                              *)
(***************************************************************************)
IsChat == last # None /\ last.endpoint = "POST /chat"
IsModels == last # None /\ last.endpoint = "GET /models"
Status == last.responses[1].status_code
Body == last.responses[1].body
HandlePresent == last.client # None

\* a body that violates the ChatRequest shape, in the words of the contract
ViolatesShape(b) ==
  \/ b.message.tag # "str"
  \/ Len(b.message.val) = 0
  \/ Len(b.message.val) > 4000
  \/ b.max_tokens.tag = "int" /\ (b.max_tokens.val < 1 \/ b.max_tokens.val > 4096)
  \/ b.temperature.tag = "float"
       /\ (b.temperature.val < 0 \/ b.temperature.val > 20)

\* the value the contract gives a field: the given one, or the default when
\* the field is omitted
Given(v, d) == IF v.tag = "missing" THEN d ELSE v

\* C1: a POST /chat whose body violates the ChatRequest shape ends in 422 and
\* issues no provider call, whether the provider handle is present or absent
C1_InvalidBodyIs422 ==
  (IsChat /\ ViolatesShape(last.body)) =>
    /\ Len(last.responses) = 1
    /\ Status = 422
    /\ Len(last.calls) = 0

\* C1 witness: an over-long message and an out-of-range max_tokens, each
\* refused while the handle is present
C1_Witness ==
  /\ IsChat /\ HandlePresent /\ Status = 422
  /\ \/ last.body.message.tag = "str" /\ Len(last.body.message.val) = 4001
     \/ last.body.max_tokens = IntV(4097)

\* C2: every provider call carries a 1..4000 character user message, a string
\* model, an integer max_tokens in 1..4096 and a temperature in 0.0..2.0, and
\* an omitted field takes its default
C2_CallWithinBounds ==
  IsChat =>
    \A i \in 1..Len(last.calls) :
      LET c == last.calls[i]
          b == last.body
      IN /\ Len(c.messages[2].content) \in 1..4000
         /\ c.model.tag = "str"
         /\ c.max_tokens.tag = "int" /\ c.max_tokens.val \in 1..4096
         /\ c.temperature.tag = "float" /\ c.temperature.val \in 0..20
         /\ b.model.tag = "missing" => c.model = StrV("llama-3.1-8b-instant")
         /\ b.max_tokens.tag = "missing" => c.max_tokens = IntV(1024)
         /\ b.temperature.tag = "missing" => c.temperature = FloatV(7)

\* C3: with the handle absent a valid POST /chat and any GET /models answer
\* 503, and /chat issues no provider call
C3_NoHandleIs503 ==
  /\ (IsChat /\ ~ViolatesShape(last.body) /\ ~HandlePresent) =>
       (Status = 503 /\ Len(last.calls) = 0)
  /\ (IsModels /\ ~HandlePresent) => Status = 503

\* C3 witness: a valid chat request refused with 503 after shutdown
C3_Witness ==
  /\ IsChat /\ ~ViolatesShape(last.body) /\ ~HandlePresent
  /\ phase = "stopped" /\ Status = 503

ProviderFailed == IsChat /\ last.outcome # None /\ last.outcome.kind = "raise"
ProviderReturned == IsChat /\ last.outcome # None /\ last.outcome.kind = "return"

\* C4: a failed provider call is answered 401, 429, 400 or 500 by the first
\* matching case-insensitive pattern of its error text: invalid_api_key,
\* rate_limit, model together with not found, anything else
C4_ErrorStatus ==
  ProviderFailed =>
    LET m == lower(last.outcome.msg)
        key == In("invalid_api_key", m)
        rate == In("rate_limit", m)
        model == In("model", m) /\ In("not found", m)
    IN /\ Status \in {401, 429, 400, 500}
       /\ key => Status = 401
       /\ (~key /\ rate) => Status = 429
       /\ (~key /\ ~rate /\ model) => Status = 400
       /\ (~key /\ ~rate /\ ~model) => Status = 500

\* C4 witness: a mixed-case rate-limit error answered 429
C4_Witness ==
  ProviderFailed /\ last.outcome.msg = "Rate_Limit reached" /\ Status = 429

\* C5: when the handle is present and the provider call succeeds the answer
\* is 200 with the first choice's text as reply, the request's model (the
\* default when none is named) as model_used and the reported total token
\* usage, or none, as tokens_used
C5_SuccessIs200 ==
  ProviderReturned =>
    /\ Status = 200
    /\ Body.reply = last.outcome.val.choices[1]
    /\ Body.model_used =
         (IF last.body.model.tag = "str" THEN last.body.model
          ELSE StrV("llama-3.1-8b-instant"))
    /\ Body.tokens_used =
         (IF last.outcome.val.usage = None THEN None
          ELSE last.outcome.val.usage.total_tokens)

\* C6: the provider call carries the request's model, max_tokens and
\* temperature unchanged, has streaming disabled and holds exactly two
\* turns, system then user
C6_CallArguments ==
  IsChat =>
    \A i \in 1..Len(last.calls) :
      LET c == last.calls[i]
          b == last.body
      IN /\ c.model = Given(b.model, StrV("llama-3.1-8b-instant"))
         /\ c.max_tokens = Given(b.max_tokens, IntV(1024))
         /\ c.temperature = Given(b.temperature, FloatV(7))
         /\ c.stream = FALSE
         /\ Len(c.messages) = 2
         /\ c.messages[1].role = "system"
         /\ c.messages[2].role = "user"

\* C6 witness: a call issued for a request that sets all three parameters
C6_Witness ==
  /\ IsChat /\ Len(last.calls) = 1
  /\ last.body.model = StrV("mixtral-8x7b-32768")
  /\ last.body.max_tokens = IntV(512)
  /\ last.body.temperature = FloatV(9)
  /\ last.calls[1].max_tokens = IntV(512)

\* C7: in the provider call the system turn is create_system_prompt() and
\* the user turn is sanitize_message(message)
C7_PromptAndSanitizedMessage ==
  IsChat =>
    \A i \in 1..Len(last.calls) :
      /\ last.calls[i].messages[1].content = create_system_prompt(None)
      /\ last.calls[i].messages[2].content = sanitize_message(last.body.message)

\* C8: a POST /chat issues no provider call when it ends in 422 or 503 and
\* exactly one otherwise, also when that call failed
C8_AtMostOneCall ==
  IsChat =>
    /\ Len(last.calls) <= 1
    /\ Status \in {422, 503} => Len(last.calls) = 0
    /\ Status \notin {422, 503} => Len(last.calls) = 1

\* C8 witness: a failed provider call, answered 500 after a single call
C8_Witness == ProviderFailed /\ Status = 500 /\ Len(last.calls) = 1

\* C9: every failed request has a body with an error category and a detail
\* message, and the category of a rate_limit provider error is RateLimited
C9_StructuredError ==
  (IsChat /\ Status \in {422, 503, 401, 429, 400, 500}) =>
    /\ "error" \in DOMAIN Body
    /\ "detail" \in DOMAIN Body
    /\ Status = 429 => Body.error = "RateLimited"

\* C10: a POST /chat has exactly one response, a 200 or a failure status; a
\* 200 body has a string reply and a string model_used, and a provider
\* success without choices or with a null content is answered 500
C10_OneOutcome ==
  IsChat =>
    /\ Len(last.responses) = 1
    /\ Status \in {200, 422, 503, 401, 429, 400, 500}
    /\ Status = 200 => (Body.reply.tag = "str" /\ Body.model_used.tag = "str")
    /\ (ProviderReturned /\ Len(last.outcome.val.choices) = 0) => Status = 500
    /\ (ProviderReturned /\ Len(last.outcome.val.choices) > 0
          /\ last.outcome.val.choices[1] = None) => Status = 500

\* C10 witness: a completion whose first choice has no content, answered 500
C10_Witness ==
  /\ ProviderReturned /\ Len(last.outcome.val.choices) > 0
  /\ last.outcome.val.choices[1] = None /\ Status = 500

IsHealth == last # None /\ last.endpoint = "GET /health"

\* C11: in every process state GET /health answers 200 with status healthy
\* and a client field that is connected exactly when the handle is present
C11_HealthReflectsHandle ==
  IsHealth =>
    /\ Status = 200
    /\ Body.status = "healthy"
    /\ Body.groq_client \in {"connected", "disconnected"}
    /\ (Body.groq_client = "connected") <=> (last.client # None)

\* C11 witness: health asked after shutdown, answered disconnected
C11_Witness ==
  IsHealth /\ phase = "stopped" /\ groq_client = None
    /\ Body.groq_client = "disconnected"

\* C12: without a credential (unset or empty) startup fails, the handle is
\* never created and the serving state is never entered; a handle exists
\* only after a startup that found a credential
C12_NoCredentialNoHandle ==
  /\ ~Truthy(api_key) =>
       (groq_client = None /\ phase \in {"init", "failed"})
  /\ groq_client # None =>
       (Truthy(api_key) /\ groq_client = Groq(api_key.val) /\ phase = "serving")

\* C12 witness: a startup that failed on an empty credential
C12_Witness == phase = "failed" /\ api_key = StrV("") /\ groq_client = None

\* C13: however request handling and shutdown interleave, a provider call is
\* only issued on a present handle, and a request that passed the handle
\* test issues its call on the handle it tested
C13_CallOnLiveHandle ==
  (last # None /\ last.pc = "done") =>
    /\ Len(last.calls) > 0 => last.used # None
    /\ (ValidationErrors(last.body) = {} /\ last.client # None) =>
         (Len(last.calls) = 1 /\ last.used = last.client)

\* C13 witness: shutdown ran after a request's provider call and before its
\* response was delivered
C13_Witness ==
  /\ last # None /\ last.pc = "done" /\ Len(last.calls) = 1
  /\ phase = "stopped" /\ groq_client = None

IsSanitize == last # None /\ last.endpoint = "sanitize_message"
FirstPass == IsSanitize /\ last.pass = 1 /\ last.input # None
SecondPass == IsSanitize /\ last.pass = 2 /\ last.first # None

\* the text after the whitespace pass, and after the script and tag passes
Normal(t) == collapse_whitespace(strip(t))
Clean(t) == remove_tags(remove_scripts(Normal(t)))

EndsWith(t, sfx) ==
  Len(t) >= Len(sfx) /\ SubSeq(t, Len(t) - Len(sfx) + 1, Len(t)) = sfx

\* a script block as a browser reads it: an opening <script in any case, and
\* a closing </script in any case that may hold whitespace before its >
BlockCloseAt(t, k) ==
  /\ MatchAtI(t, k, "</script")
  /\ \E e \in (k + 8)..Len(t) :
       /\ CharAt(t, e) = ">"
       /\ \A j \in (k + 8)..(e - 1) : IsSpace(CharAt(t, j))

BlockCloseEnd(t, k) ==
  Min({e \in (k + 8)..Len(t) : CharAt(t, e) = ">"})

BlockCloses(t, i) == {k \in (i + 7)..Len(t) : BlockCloseAt(t, k)}

BlockStarts(t, i) ==
  {j \in i..Len(t) : MatchAtI(t, j, "<script") /\ BlockCloses(t, j) # {}}

\* the text with its script blocks taken out, left to right
RECURSIVE WithoutBlocksFrom(_, _)
WithoutBlocksFrom(t, i) ==
  IF BlockStarts(t, i) = {} THEN SubSeq(t, i, Len(t))
  ELSE LET j == Min(BlockStarts(t, i))
       IN SubSeq(t, i, j - 1)
            \o WithoutBlocksFrom(t, BlockCloseEnd(t, Min(BlockCloses(t, j))) + 1)

\* the payload X stands inside a script block of t
PayloadInBlock(t) ==
  \E p \in 1..Len(t) :
    /\ CharAt(t, p) = "X"
    /\ \E i \in 1..(p - 7) :
         /\ MatchAtI(t, i, "<script")
         /\ BlockCloses(t, i) # {}
         /\ p < Min(BlockCloses(t, i))

\* the payload is script-block content of t, also of a block that only
\* forms when another block is taken out
RECURSIVE IsScriptContent(_)
IsScriptContent(t) ==
  IF PayloadInBlock(t) THEN TRUE
  ELSE IF BlockStarts(t, 1) = {} THEN FALSE
  ELSE IsScriptContent(WithoutBlocksFrom(t, 1))

OnePayload(t) == Cardinality({p \in 1..Len(t) : CharAt(t, p) = "X"}) = 1

\* C14: the output of sanitize_message holds no script-block content, also
\* for a block that forms when another is removed and for a closing tag with
\* whitespace before its bracket
C14_NoScriptContent ==
  (FirstPass /\ OnePayload(last.input.val) /\ IsScriptContent(last.input.val)) =>
    ~In("X", last.output)

\* C15: sanitize_message applied to its own output returns it unchanged,
\* for every input
C15_Idempotent == SecondPass => last.output = last.input.val

\* C15 as amended: sanitize_message applied to its own output returns it
\* unchanged for every input from which the first pass removed no tag and no
\* script block, truncated or not
C15_IdempotentWhenNothingRemoved ==
  (SecondPass /\ Clean(last.first.val) = Normal(last.first.val)) =>
    last.output = last.input.val

\* C15 witness: a second pass over a truncated first output that still holds
\* a bracket
C15_Witness ==
  /\ SecondPass /\ Clean(last.first.val) = Normal(last.first.val)
  /\ last.limit = SanLimit
  /\ Len(Normal(last.first.val)) > last.limit
  /\ In("<", last.input.val)
  /\ last.output = last.input.val

\* C16: for an input longer than the limit the output has at most limit + 3
\* characters and ends with the marker "..."
C16_LongInputTruncated ==
  (FirstPass /\ Len(last.input.val) > last.limit) =>
    (Len(last.output) <= last.limit + 3 /\ EndsWith(last.output, "..."))

\* C16 as amended: the output never has more than limit + 3 characters, and
\* when the text left by the whitespace, script and tag passes is longer
\* than the limit the output is its first limit characters and the marker
C16_LongResultTruncated ==
  FirstPass =>
    /\ Len(last.output) <= last.limit + 3
    /\ Len(Clean(last.input.val)) > last.limit =>
         /\ Len(last.output) = last.limit + 3
         /\ EndsWith(last.output, "...")
         /\ SubSeq(last.output, 1, last.limit)
              = SubSeq(Clean(last.input.val), 1, last.limit)
    /\ Len(Clean(last.input.val)) <= last.limit =>
         last.output = Clean(last.input.val)

\* C16 witness: an input with a tag and spaces whose cleaned text is still
\* too long and is cut
C16_Witness ==
  /\ FirstPass /\ In("<b>", last.input.val)
  /\ Len(Clean(last.input.val)) > last.limit
  /\ EndsWith(last.output, "...")

\* no whitespace at either end, no two whitespace characters in a row, and
\* no whitespace character other than the space
TidyWhitespace(t) ==
  /\ Len(t) > 0 => (~IsSpace(CharAt(t, 1)) /\ ~IsSpace(CharAt(t, Len(t))))
  /\ \A i \in 1..(Len(t) - 1) : ~(IsSpace(CharAt(t, i)) /\ IsSpace(CharAt(t, i + 1)))
  /\ \A i \in 1..Len(t) : IsSpace(CharAt(t, i)) => CharAt(t, i) = " "

\* C17: for every input the output has no leading or trailing whitespace and
\* no run of two or more whitespace characters
C17_TidyOutput == FirstPass => TidyWhitespace(last.output)

\* C17 as amended: the output has no leading or trailing whitespace and no
\* run of two or more whitespace characters for every input from which the
\* script and tag passes remove nothing
C17_TidyWhenNothingRemoved ==
  (FirstPass /\ Clean(last.input.val) = Normal(last.input.val)) =>
    TidyWhitespace(last.output)

\* C17 witness: a run of a space and a newline inside the text, collapsed to
\* one space
C17_Witness ==
  /\ FirstPass /\ In("X \nX", last.input.val)
  /\ Clean(last.input.val) = Normal(last.input.val)
  /\ In(" ", last.output)

IsValidate == last # None /\ last.endpoint = "validate_model_name"

\* ids of the catalog GET /models serves when the handle is present
ServedIds ==
  LET served == get_available_models(Groq("gsk_test")).body.models
  IN {served[i] : i \in 1..Len(served)}

\* C18: validate_model_name(m) is true exactly for the ids of the catalog
\* served by GET /models, false for everything else, and the list it checks
\* holds the same ids as that catalog
C18_ValidIffServed ==
  /\ IsValidate =>
       (last.output <=> (last.input.tag = "str" /\ last.input.val \in ServedIds))
  /\ {valid_models[i] : i \in 1..Len(valid_models)} = ServedIds

\* C18 witness: the 70B id accepted and None refused
C18_Witness ==
  /\ IsValidate
  /\ \/ last.input = StrV("llama3-70b-8192") /\ last.output = TRUE
     \/ last.input = None /\ last.output = FALSE

\* C19: on provider success the 200 body is what the response formatter
\* makes of the provider's answer: the reply with surrounding whitespace
\* trimmed, the model and the token count unchanged
C19_ReplyFormatted ==
  (ProviderReturned /\ Status = 200) =>
    LET completion == last.outcome.val
        tokens == IF completion.usage # None THEN completion.usage.total_tokens
                  ELSE None
        formatted == format_chat_response(completion.choices[1],
                                          ChatRequest(last.body).model, tokens)
    IN /\ Body.reply = formatted.reply
       /\ Body.model_used = formatted.model_used
       /\ Body.tokens_used = formatted.tokens_used

\* the category of a provider error, by its text
Category(e) ==
  IF In("invalid_api_key", lower(e)) THEN "invalid credential"
  ELSE IF In("rate_limit", lower(e)) THEN "rate limited"
  ELSE IF In("model", lower(e)) /\ In("not found", lower(e)) THEN "model not found"
  ELSE "unknown"

\* other valid requests that name the same model
SameModelBodies(b) ==
  [message : {StrV("Hello AI!"), StrV("  <b>hi</b>   there ")},
   model : {b.model}, max_tokens : {Missing, IntV(512)},
   temperature : {Missing, FloatV(9)}]

\* C20: the answer to a failed provider call does not carry the error text:
\* every provider error of the same category, on every request with the same
\* model, is answered with the same status and the same body
C20_ErrorTextNotReturned ==
  ProviderFailed =>
    /\ Len(last.outcome.msg) > 0 => ~In(last.outcome.msg, Body.detail)
    /\ \A e \in ErrorTexts : \A b \in SameModelBodies(last.body) :
         Category(e) = Category(last.outcome.msg) =>
           PostChat(last.client, b, Raise(e)).responses = last.responses

\* C20 witness: an uncategorised provider error answered with the generic 500
C20_Witness ==
  /\ ProviderFailed /\ last.outcome.msg = "resource not found"
  /\ Status = 500
  /\ Body.detail = "An error occurred while processing your request"

\* the statuses of the known patterns, in the order they are tried
PatternStatus == <<401, 429, 400>>

\* the i-th known pattern occurs in the lowered text m
PatternMatches(i, m) ==
  CASE i = 1 -> In("invalid_api_key", m)
    [] i = 2 -> In("rate_limit", m)
    [] i = 3 -> In("model", m) /\ In("not found", m)

\* the status of the first pattern that matches, 500 when none does
FirstMatchStatus(e) ==
  LET hits == {i \in 1..Len(PatternStatus) : PatternMatches(i, lower(e))}
  IN IF hits = {} THEN 500 ELSE PatternStatus[Min(hits)]

\* the provider call was made and an exception ended the try block: the
\* provider's own, or one raised while the answer was being built
RaisedAfterReturn ==
  /\ ProviderReturned
  /\ ExtractResponse(last.outcome.val, ChatRequest(last.body)).kind = "raise"

RaisedText ==
  IF ProviderFailed THEN last.outcome.msg
  ELSE ExtractResponse(last.outcome.val, ChatRequest(last.body)).msg

\* C21: the error of a POST /chat whose provider call was made is classified
\* by the first pattern that matches, in the order invalid_api_key (401),
\* rate_limit (429), model together with not found (400), whether the
\* provider raised it or it was raised after the provider call returned
C21_FirstMatchPriority ==
  (ProviderFailed \/ RaisedAfterReturn) =>
    /\ Len(last.calls) = 1
    /\ Status = FirstMatchStatus(RaisedText)

\* C21 witness: an error text with two known patterns, answered by the
\* earlier one
C21_Witness ==
  /\ ProviderFailed
  /\ Cardinality({i \in 1..3 : PatternMatches(i, lower(last.outcome.msg))}) = 2
  /\ In("rate_limit", lower(last.outcome.msg))
  /\ In("invalid_api_key", lower(last.outcome.msg))
  /\ Status = 401

\* t[i..j] is tag markup: a "<", one or more characters that are not ">",
\* and a ">"
IsTagAt(t, i, j) ==
  /\ j > i + 1
  /\ CharAt(t, i) = "<"
  /\ CharAt(t, j) = ">"
  /\ \A k \in (i + 1)..(j - 1) : CharAt(t, k) # ">"

HasTag(t) == \E i \in 1..Len(t) : \E j \in 1..Len(t) : IsTagAt(t, i, j)

\* a tag of t with another "<" inside it
HasNestedTag(t) ==
  \E i \in 1..Len(t) : \E j \in 1..Len(t) :
    IsTagAt(t, i, j) /\ \E k \in (i + 1)..(j - 1) : CharAt(t, k) = "<"

\* C22: for every input the output of sanitize_message holds no tag markup,
\* that is no "<" followed by one or more characters other than ">" and a
\* ">", also when the brackets of the input are nested or overlap
C22_NoTagMarkup == IsSanitize => ~HasTag(last.output)

\* C22 witness: an input with one bracket opened inside another, whose
\* output keeps a bracket and no tag
C22_Witness ==
  /\ FirstPass /\ last.limit = sanitize_limit
  /\ HasNestedTag(last.input.val)
  /\ In(">", last.output)
  /\ ~HasTag(last.output)

====
